---- MODULE Spec2Model ----
(***************************************************************************)
(* Model of app.py, the Streamlit dashboard "Toronto Labour & Business     *)
(* Dynamics Explorer".  Streamlit re-executes the whole script on every    *)
(* user interaction; one execution is modelled as the steps                *)
(*   StartRun -> ModuleRequests -> load_data (cached | local | fetch)      *)
(*            -> Render                                                    *)
(* A data frame is a record [columns, rows]; a row is a function from the  *)
(* column names to cell values.  A CSV text is a record [header, cells].   *)
(* Of the columns of the licence table only one is kept: the ward column,  *)
(* or another column when the table has no ward column.                    *)
(***************************************************************************)
EXTENDS Integers, Naturals, Sequences, FiniteSets, TLC

VARIABLES
    fs,                \* working directory: file name -> CSV text, or Absent
    caseInsensitiveFS, \* whether the file system folds case in name look-ups
    pc,                \* position of the script run
    url,               \* the module-level global `url` ("unset" between runs)
    cache,             \* memo of st.cache_data for load_data()
    data,              \* the global `data` of the current run
    rng,               \* state of numpy's global generator
    panel,             \* what the page shows at the end of the run
    errorShown,        \* st.error was called in this run
    available_wards,   \* options of the sidebar multiselect
    selected_ward,     \* the user's selection
    filtered_data,     \* rows kept by the filter
    chart_data,        \* the aggregate table
    lastLoad,          \* history: what the last execution of load_data did
    loadCompleted,     \* history: load_data has returned once in this process
    requestsIssued,    \* history: number of HTTP request steps taken in this run
    healthLog,         \* history: first health sequence derived per row count
    rederived          \* history: a row count has been derived for a second time

vars == <<fs, caseInsensitiveFS, pc, url, cache, data, rng, panel, errorShown,
          available_wards, selected_ward, filtered_data, chart_data,
          lastLoad, loadCompleted, requestsIssued, healthLog, rederived>>

\* ---------------------------------------------------------------- bounds
MaxRows == 3
RngMod  == 5

\* ------------------------------------------------------------- constants
local_path  == "business_licences_toronto.csv"
VariantName == "Business_Licences_Toronto.csv"
FileNames   == {local_path, VariantName}
Absent      == [header |-> "<absent>", cells |-> <<>>]
Garbage     == [header |-> "<unparseable>", cells |-> <<>>]
Unset       == [columns |-> {"<unset>"}, rows |-> <<>>]
NaN         == "<NaN>"
NaNNum      == 0 - 1
SeedValue   == 42
HealthLow   == 60
HealthHigh  == 95
Scale       == 10

WardOrder   == <<"A", "B">>
WardValues  == {WardOrder[i] : i \in 1..Len(WardOrder)}
OtherColumn == "Category"

\* ------------------------------------------------------------- utilities
RECURSIVE SeqsUpTo(_, _)
SeqsUpTo(S, n) ==
    IF n = 0 THEN {<<>>}
    ELSE LET shorter == SeqsUpTo(S, n - 1)
         IN  shorter \cup {Append(s, x) : s \in {t \in shorter : Len(t) = n - 1}, x \in S}

RECURSIVE SumSeq(_)
SumSeq(s) == IF s = <<>> THEN 0 ELSE Head(s) + SumSeq(Tail(s))

\* ------------------------------------------------------------- CSV texts
\* The texts a file or a response body can hold: one column, up to MaxRows
\* cells.  An empty cell is a missing value.
CsvTexts   ==
    {[header |-> "Ward_Name", cells |-> c] : c \in SeqsUpTo(WardValues \cup {""}, MaxRows)}
    \cup {[header |-> OtherColumn, cells |-> c] : c \in SeqsUpTo({"x"}, MaxRows)}
Contents   == CsvTexts \cup {Garbage}

\* pd.DataFrame(): no columns, no rows.
EmptyFrame == [columns |-> {}, rows |-> <<>>]

\* pd.read_csv: the header names the column, an empty cell becomes NaN.
\* Text that is not a table raises (Garbage is never passed here).
ReadCsv(text) ==
    [columns |-> {text.header},
     rows    |-> [i \in 1..Len(text.cells) |->
                    (text.header :> (IF text.cells[i] = "" THEN NaN ELSE text.cells[i]))]]

\* df.to_csv(index=False) of a frame that has just been read: NaN is written
\* as an empty cell.
ToCsv(df) ==
    LET col == CHOOSE c \in df.columns : TRUE
    IN  [header |-> col,
         cells  |-> [i \in 1..Len(df.rows) |->
                       IF df.rows[i][col] = NaN THEN "" ELSE df.rows[i][col]]]

\* df.empty: no rows or no columns.
IsEmpty(df) == df.columns = {} \/ Len(df.rows) = 0

\* ------------------------------------------------------------ file system
\* Case folding of a file name.
Lower(name) == IF name = VariantName THEN local_path ELSE name

\* The directory entries a path resolves to.
Resolve(dir, folds, path) ==
    {n \in FileNames : dir[n] # Absent /\ (n = path \/ (folds /\ Lower(n) = Lower(path)))}

\* The check made on a misspelt file name.
PathExistsMisspelt(dir, folds, path) == Resolve(dir, folds, "business_licenses_toronto.csv") # {}

\* os.path.exists(path)
PathExists(dir, folds, path) == Resolve(dir, folds, path) # {}

\* The text an open of path reads.
FileText(dir, folds, path) == dir[CHOOSE n \in Resolve(dir, folds, path) : TRUE]

\* -------------------------------------------------------------- generator
\* numpy's global generator, abstracted to a congruential generator over
\* RngMod states: the seed fixes the state, every draw advances it.
RngSeed(seed) == seed % RngMod
RngNext(st)   == (2 * st + 1) % RngMod

\* One draw of np.random.uniform(low, high): low + (high - low) * u with
\* u = st / RngMod in [0, 1), in fixed point with Scale steps per unit.
UniformValue(st) == HealthLow * Scale + (((HealthHigh - HealthLow) * Scale * st) \div RngMod)

\* np.random.uniform(60, 95, size = n): the values and the state left behind.
RECURSIVE UniformDraws(_, _)
UniformDraws(st, n) ==
    IF n = 0 THEN [values |-> <<>>, state |-> st]
    ELSE LET nxt  == RngNext(st)
             rest == UniformDraws(nxt, n - 1)
         IN  [values |-> <<UniformValue(nxt)>> \o rest.values, state |-> rest.state]

\* The generator left as it was.
ReseedSkipped(st) == st

\* The state np.random.seed(42) leaves.
Reseed(st) == RngSeed(SeedValue)

\* ----------------------------------------------------- feature engineering
Column(df, col) == [i \in 1..Len(df.rows) |-> df.rows[i][col]]

\* A count that misses the first row.
ValueCountsOffByOne(series) ==
    [w \in {series[i] : i \in 1..Len(series)} \ {NaN} |->
        Cardinality({i \in 2..Len(series) : series[i] = w})]

\* Series.value_counts().to_dict(): NaN is not counted.
ValueCounts(series) ==
    [w \in {series[i] : i \in 1..Len(series)} \ {NaN} |->
        Cardinality({i \in 1..Len(series) : series[i] = w})]

\* Series.map(dict): a value that is no key of the dict maps to NaN.
MapCounts(series, counts) ==
    [i \in 1..Len(series) |->
        IF series[i] \in DOMAIN counts THEN counts[series[i]] ELSE NaNNum]

\* Lines 79-83 of load_data.  raised: df['Ward_Name'] is a KeyError.
FeatureEngineering(df, st) ==
    IF IsEmpty(df)
    THEN [raised |-> FALSE, df |-> df, rng |-> st, derived |-> FALSE]
    ELSE IF "Ward_Name" \notin df.columns
    THEN [raised |-> TRUE, df |-> df, rng |-> st, derived |-> FALSE]
    ELSE LET wards   == Column(df, "Ward_Name")
             density == MapCounts(wards, ValueCounts(wards))
             draws   == UniformDraws(Reseed(st), Len(df.rows))
         IN  [raised  |-> FALSE,
              df      |-> [columns |-> df.columns \cup {"Ward_Density", "Market_Health_Score"},
                           rows    |-> [i \in 1..Len(df.rows) |->
                                          [Ward_Name           |-> wards[i],
                                           Ward_Density        |-> density[i],
                                           Market_Health_Score |-> draws.values[i]]]],
              rng     |-> draws.state,
              derived |-> TRUE]

\* ------------------------------------------------------------- responses
\* What requests.get(csv_url, timeout=30) can produce: an exception, or a
\* response with some status whose body is some text.
StatusCodes == {200, 404}
TimedOut    == [kind |-> "timeout", status |-> 0, body |-> Garbage]
NoResponse  == [kind |-> "none", status |-> 0, body |-> Garbage]
Responses   ==
    {TimedOut} \cup {[kind |-> "http", status |-> c, body |-> b] : c \in StatusCodes, b \in Contents}

\* ------------------------------------------------------------- load_data
\* The body of load_data (lines 57-85) as a function of the directory, the
\* generator state, the response the fetch would get and whether the
\* directory can be written.  raised: an exception leaves load_data.
LoadDataBody(dir, folds, st, resp, writable) ==
    IF PathExists(dir, folds, local_path)
    THEN \* line 60
         LET text == FileText(dir, folds, local_path)
         IN  IF text = Garbage
             THEN [path |-> "local", raised |-> TRUE, value |-> Unset, error |-> FALSE,
                   fs |-> dir, rng |-> st, derived |-> FALSE, wrote |-> FALSE, resp |-> NoResponse]
             ELSE LET fe == FeatureEngineering(ReadCsv(text), st)
                  IN  [path |-> "local", raised |-> fe.raised,
                       value |-> IF fe.raised THEN Unset ELSE fe.df, error |-> FALSE,
                       fs |-> dir, rng |-> fe.rng, derived |-> fe.derived, wrote |-> FALSE,
                       resp |-> NoResponse]
    ELSE \* lines 63-75
         IF resp.kind = "timeout" \/ resp.body = Garbage \/ ~writable
         THEN \* the except branch: st.error, return pd.DataFrame()
              [path |-> "fetch", raised |-> FALSE, value |-> EmptyFrame, error |-> TRUE,
               fs |-> dir, rng |-> st, derived |-> FALSE, wrote |-> FALSE, resp |-> resp]
         ELSE LET df  == ReadCsv(resp.body)
                  dir2 == [dir EXCEPT ![local_path] = ToCsv(df)]
                  fe  == FeatureEngineering(df, st)
              IN  [path |-> "fetch", raised |-> fe.raised,
                   value |-> IF fe.raised THEN Unset ELSE fe.df, error |-> FALSE,
                   fs |-> dir2, rng |-> fe.rng, derived |-> fe.derived, wrote |-> TRUE,
                   resp |-> resp]

\* ------------------------------------------------------------- the page
\* sorted([str(w) for w in data['Ward_Name'].dropna().unique()])
AvailableWards(df) ==
    LET present == {df.rows[i].Ward_Name : i \in 1..Len(df.rows)} \ {NaN}
    IN  SelectSeq(WardOrder, LAMBDA w : w \in present)

\* Series.astype(str): NaN becomes the string "nan".
AsStr(w) == IF w = NaN THEN "nan" ELSE w

\* data[data['Ward_Name'].astype(str).isin(selected)]
FilterRows(df, selected) ==
    SelectSeq(df.rows, LAMBDA r : AsStr(r.Ward_Name) \in selected)

\* groupby('Ward_Name').agg(mean, first).reset_index(): one row per
\* non-missing ward of the rows, sorted by ward.
ChartData(rows) ==
    LET wardsIn == {rows[i].Ward_Name : i \in 1..Len(rows)} \ {NaN}
        keys    == SelectSeq(WardOrder, LAMBDA w : w \in wardsIn)
        group(w) == SelectSeq(rows, LAMBDA r : r.Ward_Name = w)
        health(g) == [i \in 1..Len(g) |-> g[i].Market_Health_Score]
    IN  [k \in 1..Len(keys) |->
            [Ward_Name           |-> keys[k],
             Market_Health_Score |-> SumSeq(health(group(keys[k]))) \div Len(group(keys[k])),
             Ward_Density        |-> group(keys[k])[1].Ward_Density]]

SeqToSet(q) == {q[i] : i \in 1..Len(q)}

\* ------------------------------------------------------------------ Init
Directories ==
    {[n \in FileNames |-> Absent]}
    \cup {[n \in FileNames |-> IF n = m THEN c ELSE Absent] : m \in FileNames, c \in Contents}

EmptyCache == [filled |-> FALSE, value |-> Unset, error |-> FALSE]
NoLoad     == [path |-> "none", raised |-> FALSE, wrote |-> FALSE, existed |-> FALSE,
               derived |-> FALSE, resp |-> NoResponse]
EmptyLog   == [n \in 1..MaxRows |-> <<>>]

Init ==
    /\ fs \in Directories
    /\ caseInsensitiveFS \in BOOLEAN
    /\ rng \in 0..(RngMod - 1)
    /\ pc = "idle"
    /\ url = "unset"
    /\ cache = EmptyCache
    /\ data = Unset
    /\ panel = "none"
    /\ errorShown = FALSE
    /\ available_wards = <<>>
    /\ selected_ward = {}
    /\ filtered_data = <<>>
    /\ chart_data = <<>>
    /\ lastLoad = NoLoad
    /\ loadCompleted = FALSE
    /\ requestsIssued = 0
    /\ healthLog = EmptyLog
    /\ rederived = FALSE

pageVars == <<available_wards, selected_ward, filtered_data, chart_data>>
histVars == <<lastLoad, loadCompleted, requestsIssued, healthLog, rederived>>

\* --------------------------------------------------------------- actions
\* A user interaction (or the first page view) re-executes the script.
StartRun ==
    /\ pc = "idle"
    /\ pc' = "module"
    /\ requestsIssued' = 0
    /\ lastLoad' = NoLoad
    /\ url' = "package_show"
    /\ data' = Unset
    /\ panel' = "none"
    /\ errorShown' = FALSE
    /\ available_wards' = <<>>
    /\ selected_ward' = {}
    /\ filtered_data' = <<>>
    /\ chart_data' = <<>>
    /\ UNCHANGED <<fs, caseInsensitiveFS, cache, rng, loadCompleted, healthLog, rederived>>

\* Lines 18-49: the CKAN requests at module level succeed; `url` is left at
\* the last URL the loop assigned.
ModuleRequestsOk ==
    /\ pc = "module"
    /\ \E last \in {"package_show", "datastore_search", "resource_show"} : url' = last
    /\ requestsIssued' = requestsIssued + 1
    /\ pc' = "load"
    /\ UNCHANGED <<fs, caseInsensitiveFS, cache, data, rng, panel, errorShown, pageVars,
                   lastLoad, loadCompleted, healthLog, rederived>>

\* Lines 18-49: a request or the decoding of its answer raises; nothing
\* catches it, the run ends with the exception.
ModuleRequestsRaise ==
    /\ pc = "module"
    /\ requestsIssued' = requestsIssued + 1
    /\ pc' = "idle"
    /\ url' = "unset"
    /\ panel' = "exception"
    /\ UNCHANGED <<fs, caseInsensitiveFS, cache, data, rng, errorShown, pageVars,
                   lastLoad, loadCompleted, healthLog, rederived>>

\* Line 91 with a memoized result: st.cache_data returns it (and replays
\* the st.error recorded with it) without running load_data.
LoadDataCached ==
    /\ pc = "load"
    /\ cache.filled
    /\ data' = cache.value
    /\ errorShown' = cache.error
    /\ pc' = "render"
    /\ lastLoad' = [NoLoad EXCEPT !.path = "cached"]
    /\ UNCHANGED <<fs, caseInsensitiveFS, url, cache, rng, panel, pageVars,
                   loadCompleted, requestsIssued, healthLog, rederived>>

\* The bookkeeping common to both executions of load_data.
LoadDataStep(r) ==
    /\ fs' = r.fs
    /\ rng' = r.rng
    /\ lastLoad' = [path |-> r.path, raised |-> r.raised, wrote |-> r.wrote,
                    existed |-> r.path = "local", derived |-> r.derived, resp |-> r.resp]
    /\ loadCompleted' = TRUE
    /\ IF r.derived
       THEN LET n == Len(r.value.rows)
                h == [i \in 1..n |-> r.value.rows[i].Market_Health_Score]
            IN  /\ healthLog' = [healthLog EXCEPT ![n] = IF @ = <<>> THEN h ELSE @]
                /\ rederived' = (rederived \/ healthLog[n] # <<>>)
       ELSE UNCHANGED <<healthLog, rederived>>
    /\ IF r.raised
       THEN /\ pc' = "idle"
            /\ url' = "unset"
            /\ panel' = "exception"
            /\ UNCHANGED <<cache, data, errorShown>>
       ELSE /\ pc' = "render"
            /\ cache' = [filled |-> TRUE, value |-> r.value, error |-> r.error]
            /\ data' = r.value
            /\ errorShown' = r.error
            /\ UNCHANGED <<url, panel>>
    /\ UNCHANGED <<caseInsensitiveFS, pageVars>>

\* Line 91, nothing memoized, the local file exists.
LoadDataLocal ==
    /\ pc = "load"
    /\ ~cache.filled
    /\ PathExists(fs, caseInsensitiveFS, local_path)
    /\ LoadDataStep(LoadDataBody(fs, caseInsensitiveFS, rng, NoResponse, TRUE))
    /\ UNCHANGED requestsIssued

\* Line 91, nothing memoized, no local file: the remote fetch.
LoadDataFetch ==
    /\ pc = "load"
    /\ ~cache.filled
    /\ ~PathExists(fs, caseInsensitiveFS, local_path)
    /\ \E resp \in Responses, writable \in BOOLEAN :
          LoadDataStep(LoadDataBody(fs, caseInsensitiveFS, rng, resp, writable))
    /\ requestsIssued' = requestsIssued + 1

\* Lines 93-135: the dashboard, with the selection the user made.
RenderDashboard ==
    /\ pc = "render"
    /\ ~IsEmpty(data)
    /\ available_wards' = AvailableWards(data)
    /\ \E sel \in SUBSET SeqToSet(AvailableWards(data)) :
          /\ selected_ward' = sel
          /\ filtered_data' = FilterRows(data, sel)
          /\ chart_data' = ChartData(FilterRows(data, sel))
    /\ panel' = "dashboard"
    /\ pc' = "idle"
    /\ url' = "unset"
    /\ UNCHANGED <<fs, caseInsensitiveFS, cache, data, rng, errorShown, histVars>>

\* Lines 136-137: st.warning.
RenderWarning ==
    /\ pc = "render"
    /\ IsEmpty(data)
    /\ panel' = "warning"
    /\ pc' = "idle"
    /\ url' = "unset"
    /\ UNCHANGED <<fs, caseInsensitiveFS, cache, data, rng, errorShown, pageVars,
                   histVars>>

\* The process is restarted: the memo and the module globals are gone, the
\* generator starts from fresh entropy, the directory stays.
Restart ==
    /\ pc = "idle"
    /\ cache' = EmptyCache
    /\ rng' \in 0..(RngMod - 1)
    /\ url' = "unset"
    /\ data' = Unset
    /\ panel' = "none"
    /\ errorShown' = FALSE
    /\ available_wards' = <<>>
    /\ selected_ward' = {}
    /\ filtered_data' = <<>>
    /\ chart_data' = <<>>
    /\ loadCompleted' = FALSE
    /\ lastLoad' = NoLoad
    /\ requestsIssued' = 0
    /\ UNCHANGED <<fs, caseInsensitiveFS, pc, healthLog, rederived>>

Next ==
    \/ StartRun
    \/ ModuleRequestsOk
    \/ ModuleRequestsRaise
    \/ LoadDataCached
    \/ LoadDataLocal
    \/ LoadDataFetch
    \/ RenderDashboard
    \/ RenderWarning
    \/ Restart

Spec == Init /\ [][Next]_vars

\* ================================================================ claims
HasWardColumn(df) == "Ward_Name" \in df.columns
HasDerived(df)    == "Ward_Density" \in df.columns
RunEnded          == pc = "idle" /\ panel # "none"
LoadExecuted      == lastLoad.path \in {"local", "fetch"}

\* The fetch did not deliver the expected CSV: an exception, a status other
\* than 200, or a body that is no table with a ward column.
FetchFailed(resp) ==
    \/ resp.kind = "timeout"
    \/ resp.status # 200
    \/ resp.body = Garbage
    \/ resp.body.header # "Ward_Name"

\* The text load_data parsed in this run.
LoadedText ==
    IF lastLoad.path = "local" THEN FileText(fs, caseInsensitiveFS, local_path)
    ELSE lastLoad.resp.body

\* Sum of a density column as pandas sums it (NaN skipped).
DensitySum(rows) ==
    SumSeq([i \in 1..Len(rows) |->
              IF rows[i].Ward_Density = NaNNum THEN 0 ELSE rows[i].Ward_Density])

\* C1: whenever the local file was absent and the remote fetch failed
\* (timeout, non-200 status, or a body that is not the expected CSV), the run
\* ends on the warning panel with an empty dataset and no exception left
\* load_data.
C1_FetchFailureIsNonFatal ==
    (RunEnded /\ lastLoad.path = "fetch" /\ FetchFailed(lastLoad.resp))
        => (panel = "warning" /\ IsEmpty(data) /\ ~lastLoad.raised)

\* C2: whenever the loaded table has rows but no ward column, the run ends on
\* the warning panel with an empty dataset instead of with an exception.
C2_MissingWardColumnIsNonFatal ==
    (RunEnded /\ LoadExecuted /\ LoadedText # Garbage /\ LoadedText # Absent
       /\ LoadedText.header # "Ward_Name" /\ Len(LoadedText.cells) > 0
       /\ (lastLoad.path = "fetch" => lastLoad.wrote))
        => (panel = "warning" /\ IsEmpty(data) /\ ~lastLoad.raised)

\* C3: in the dataset load_data returns, no row has a missing ward and no row
\* has a missing density.
C3_WardNeverMissing ==
    (HasWardColumn(data) /\ HasDerived(data))
        => \A i \in 1..Len(data.rows) :
              data.rows[i].Ward_Name # NaN /\ data.rows[i].Ward_Density # NaNNum

\* C4: every row's Ward_Density is the number of rows of the dataset with the
\* same ward, and the aggregate table has one row per selected ward.
C4_DensityIsWardFrequency ==
    /\ HasDerived(data) =>
          \A i \in 1..Len(data.rows) :
              data.rows[i].Ward_Density =
                  Cardinality({j \in 1..Len(data.rows) :
                                  data.rows[j].Ward_Name = data.rows[i].Ward_Name})
    /\ panel = "dashboard" => Len(chart_data) = Cardinality(selected_ward)

\* C5 as stated: the densities of all rows sum to the row count (taken over
\* the datasets in which no ward is missing, where no density is missing
\* either).
C5_DensitySumIsRowCount ==
    (HasDerived(data) /\ \A i \in 1..Len(data.rows) : data.rows[i].Ward_Name # NaN)
        => DensitySum(data.rows) = Len(data.rows)

\* C5 as amended: taking the density once per ward bucket (one value per
\* distinct non-missing ward), the sum is the number of rows with a
\* non-missing ward.
C5_BucketDensitiesSumToWardRows ==
    HasDerived(data) =>
        LET wards     == AvailableWards(data)
            bucket(w) == data.rows[CHOOSE i \in 1..Len(data.rows) :
                                      data.rows[i].Ward_Name = w].Ward_Density
        IN  SumSeq([k \in 1..Len(wards) |-> bucket(wards[k])])
              = Cardinality({i \in 1..Len(data.rows) : data.rows[i].Ward_Name # NaN})

C5_Witness ==
    /\ HasDerived(data)
    /\ Len(data.rows) = 3
    /\ data.rows[1].Ward_Name = "A"
    /\ data.rows[2].Ward_Name = "A"
    /\ data.rows[3].Ward_Name = "B"
    /\ DensitySum(data.rows) = 5

\* C6: selecting every offered ward keeps every row of the dataset, and the
\* empty selection keeps none.
C6_FullSelectionIsIdentity ==
    panel = "dashboard" =>
        /\ selected_ward = SeqToSet(available_wards) => filtered_data = data.rows
        /\ selected_ward = {} => filtered_data = <<>>

\* C7: once load_data has run in this process, no later step issues an HTTP
\* request or derives the feature columns again.
C7_NoRequestAfterFirstLoad ==
    [][loadCompleted =>
          /\ ~(requestsIssued' > requestsIssued)
          /\ ~(pc = "load" /\ lastLoad'.derived)]_vars

\* C8: the local file is written only by a fetch that returned status 200
\* with a table that has a ward column; a failed fetch writes nothing.
C8_FileWrittenOnlyOnSuccess ==
    (lastLoad.path = "fetch" /\ lastLoad.wrote) => ~FetchFailed(lastLoad.resp)

C10_HealthReproducibleAndInRange ==
    HasDerived(data) =>
        LET n == Len(data.rows)
        IN  /\ healthLog[n] = [i \in 1..n |-> data.rows[i].Market_Health_Score]
            /\ \A i \in 1..n :
                  /\ data.rows[i].Market_Health_Score >= HealthLow * Scale
                  /\ data.rows[i].Market_Health_Score < HealthHigh * Scale

C10_Witness ==
    /\ rederived
    /\ lastLoad.derived
    /\ Len(data.rows) = MaxRows

====
